---- MODULE Spec2Model ----
(***************************************************************************)
(* quick-git-hooks: the `setup` and `check` commands of cli.py and the      *)
(* environment probes of utils.py, as a state machine over the working     *)
(* directory, the PATH and the hook directory.                             *)
(*                                                                         *)
(* File names are sequences of their dot-separated components, so that a   *)
(* glob such as ".prettierrc.*" is matched the way pathlib matches it.     *)
(* File contents are sequences of text blocks; the two section markers of  *)
(* the bundled template are blocks of their own.                           *)
(***************************************************************************)
EXTENDS Naturals, Sequences, FiniteSets

VARIABLES
    files,              \* working directory: file name -> [exists, content]
    gitDir,             \* whether .git is a directory
    hooks,              \* .git/hooks/<type>: hook type -> state of the script
    commands,           \* the commands that resolve on PATH
    template,           \* content of the bundled .pre-commit-config.yaml
    pc,                 \* position of the running command
    overwrite,          \* setup: the --overwrite flag
    config_at_start,    \* setup: the configuration file when the run began
    manifest_at_copy,   \* setup: whether package.json existed in _copy_config
    config_copied,      \* setup: return value of _copy_config
    copy_path,          \* setup: which way _copy_config went
    python_tools_ok,    \* setup: return value of _install_python_tools
    manager_found,      \* setup: command_exists("pre-commit") in _install_hooks
    install_log,        \* setup: the hook manager's install invocations
    hooks_installed,    \* setup: return value of _install_hooks
    instructions,       \* setup: what _print_dependency_instructions printed
    exit_code,          \* exit code of the command that ended last
    probes_run,         \* check: the probes called so far
    all_success,        \* check: collected success messages
    all_warnings,       \* check: collected warning messages
    all_errors,         \* check: collected error messages
    has_issues,         \* check: the issues flag
    status              \* check: the final status line

envVars   == <<files, gitDir, hooks, commands, template>>
setupVars == <<overwrite, config_at_start, manifest_at_copy, config_copied,
               copy_path, python_tools_ok, manager_found, install_log,
               hooks_installed, instructions>>
checkVars == <<probes_run, all_success, all_warnings, all_errors, has_issues,
               status>>
vars      == <<envVars, pc, exit_code, setupVars, checkVars>>

----------------------------------------------------------------------------
(* utils.py: constants *)

TARGET_CONFIG_FILE == <<"", "pre-commit-config", "yaml">>
PACKAGE_JSON       == <<"package", "json">>
PRETTIERRC_GLOB    == <<"", "prettierrc", "*">>
ESLINTRC_GLOB      == <<"", "eslintrc", "*">>
HOOK_TYPES         == <<"pre-commit", "commit-msg", "pre-push">>
PYTHON_TOOLS       == <<"black", "flake8", "isort", "commitizen">>
JS_TOOLS           == <<"prettier", "eslint">>

(* cli.py: the files _copy_config creates, and what it writes into them *)
ESLINTRC_JSON      == <<"", "eslintrc", "json">>
PRETTIERRC         == <<"", "prettierrc">>
ESLINTRC_DEFAULT   == <<"indent", "linebreak-style", "quotes", "semi">>
PRETTIERRC_DEFAULT == <<"semi", "singleQuote", "tabWidth", "trailingComma">>
JS_MARKER          == "# JavaScript/TypeScript specific hooks"
BRANCH_MARKER      == "# Branch naming convention"

(* A configuration file a user wrote under a name the prettier glob matches,
   the name cli.py's own message suggests. *)
PRETTIERRC_JSON    == <<"", "prettierrc", "json">>

(* The guide document of the specification; no code of cli.py names it. *)
GUIDE_FILE         == <<"GIT_HOOKS_GUIDE", "md">>
GUIDE_TEMPLATE     == <<"guide">>

FileNames == {TARGET_CONFIG_FILE, PACKAGE_JSON, ESLINTRC_JSON, PRETTIERRC,
              PRETTIERRC_JSON, GUIDE_FILE}

Absent      == [exists |-> FALSE, content |-> <<>>]
File(c)     == [exists |-> TRUE, content |-> c]
UserContent == <<"user">>

Range(s) == {s[i] : i \in 1..Len(s)}

----------------------------------------------------------------------------
(* utils.py: probes *)

is_git_repo == gitDir

command_exists(command) == command \in commands

(* Path.glob with a pattern ending in ".*": the leading components are
   literal, the last one matches any rest, which must follow a dot. *)
GlobMatch(pattern, name) ==
    /\ Len(name) >= Len(pattern)
    /\ \A i \in 1..(Len(pattern) - 1) : name[i] = pattern[i]

find_config_file(fs, glob_pattern) ==
    \E n \in FileNames : fs[n].exists /\ GlobMatch(glob_pattern, n)

----------------------------------------------------------------------------
(* cli.py: _copy_config *)

(* str.split on a content: the blocks between the occurrences of sep. *)
RECURSIVE Split(_, _)
Split(s, sep) ==
    IF \A i \in 1..Len(s) : s[i] # sep
    THEN <<s>>
    ELSE LET i == CHOOSE k \in 1..Len(s) :
                     s[k] = sep /\ \A j \in 1..(k - 1) : s[j] # sep
         IN  <<SubSeq(s, 1, i - 1)>> \o Split(SubSeq(s, i + 1, Len(s)), sep)

(* Variant: the section is never cut out. *)
remove_js_section_keep(content) == [raised |-> FALSE, content |-> content]

(* Lines 49-53: the excision of the JS/TS section. parts[1].split(...)[1]
   raises IndexError when the branch marker does not follow. *)
remove_js_section(content) ==
    LET parts == Split(content, JS_MARKER) IN
    IF Len(parts) > 1
    THEN LET inner == Split(parts[2], BRANCH_MARKER) IN
         IF Len(inner) < 2
         THEN [raised |-> TRUE, content |-> content]
         ELSE [raised |-> FALSE,
               content |-> parts[1] \o <<BRANCH_MARKER>> \o inner[2]]
    ELSE [raised |-> FALSE, content |-> content]

(* Path.write_text: it succeeds, or it raises before the file is opened, or
   it raises after the file was opened for writing and so emptied. *)
WriteOutcomes == {"ok", "denied", "truncated"}

write_text(fs, name, content, outcome) ==
    CASE outcome = "ok"        -> [fs EXCEPT ![name] = File(content)]
      [] outcome = "denied"    -> fs
      [] outcome = "truncated" -> [fs EXCEPT ![name] = File(<<>>)]

IOOutcomes == [read : BOOLEAN, eslint : WriteOutcomes,
               prettier : WriteOutcomes, target : WriteOutcomes]

(* Variant: the flag is read the wrong way round. *)
skip_existing_inverted(fs, ow) == fs[TARGET_CONFIG_FILE].exists /\ ow

(* Line 38: the target exists and --overwrite was not given. *)
skip_existing(fs, ow) == fs[TARGET_CONFIG_FILE].exists /\ ~ow

(* Lines 95-103: write the content; any exception makes the copy fail. *)
write_target(fs, content, io) ==
    [files |-> write_text(fs, TARGET_CONFIG_FILE, content, io.target),
     ok    |-> io.target = "ok",
     path  |-> IF io.target = "ok" THEN "written" ELSE "io_error"]

_copy_config(fs, ow, tmpl, io) ==
    IF skip_existing(fs, ow)
    THEN [files |-> fs, ok |-> TRUE, path |-> "skipped"]
    ELSE IF ~io.read
    THEN [files |-> fs, ok |-> FALSE, path |-> "io_error"]
    ELSE IF ~fs[PACKAGE_JSON].exists
    THEN LET r == remove_js_section(tmpl) IN
         IF r.raised
         THEN [files |-> fs, ok |-> FALSE, path |-> "index_error"]
         ELSE write_target(fs, r.content, io)
    ELSE LET needE == ~find_config_file(fs, ESLINTRC_GLOB)
             fs1   == IF needE
                      THEN write_text(fs, ESLINTRC_JSON, ESLINTRC_DEFAULT,
                                      io.eslint)
                      ELSE fs
         IN  IF needE /\ io.eslint # "ok"
             THEN [files |-> fs1, ok |-> FALSE, path |-> "io_error"]
             ELSE LET needP == ~find_config_file(fs1, PRETTIERRC_GLOB)
                      fs2   == IF needP
                               THEN write_text(fs1, PRETTIERRC,
                                               PRETTIERRC_DEFAULT, io.prettier)
                               ELSE fs1
                  IN  IF needP /\ io.prettier # "ok"
                      THEN [files |-> fs2, ok |-> FALSE, path |-> "io_error"]
                      ELSE write_target(fs2, tmpl, io)

----------------------------------------------------------------------------
(* cli.py: the tool checks *)

check_cmd(tool) == IF tool = "commitizen" THEN "cz" ELSE tool

_check_python_tools ==
    {t \in Range(PYTHON_TOOLS) : ~command_exists(check_cmd(t))}

(* Lines 161-182: the missing items, in the order they are appended. *)
_check_js_tools ==
    (IF command_exists("prettier") THEN <<>>
     ELSE <<<<"command not found", "prettier">>>>)
    \o (IF find_config_file(files, PRETTIERRC_GLOB) THEN <<>>
        ELSE <<<<"config not found", "Prettier config">>>>)
    \o (IF command_exists("eslint") THEN <<>>
        ELSE <<<<"command not found", "eslint">>>>)
    \o (IF find_config_file(files, ESLINTRC_GLOB) THEN <<>>
        ELSE <<<<"config not found", "ESLint config">>>>)

NotPrinted ==
    [printed |-> FALSE, py |-> {}, js_checked |-> FALSE, js |-> <<>>]

_print_dependency_instructions ==
    [printed    |-> TRUE,
     py         |-> _check_python_tools,
     js_checked |-> files[PACKAGE_JSON].exists,
     js         |-> IF files[PACKAGE_JSON].exists THEN _check_js_tools
                    ELSE <<>>]

----------------------------------------------------------------------------
(* cli.py: setup *)

SetupReset ==
    /\ manifest_at_copy' = FALSE
    /\ config_copied' = FALSE
    /\ copy_path' = "none"
    /\ python_tools_ok' = TRUE
    /\ manager_found' = "unchecked"
    /\ install_log' = <<>>
    /\ hooks_installed' = FALSE
    /\ instructions' = NotPrinted

(* Lines 320-328 *)
setup_start ==
    /\ pc = "idle"
    /\ \E ow \in BOOLEAN : overwrite' = ow
    /\ config_at_start' = files[TARGET_CONFIG_FILE]
    /\ SetupReset
    /\ IF ~is_git_repo
       THEN pc' = "done" /\ exit_code' = 1
       ELSE pc' = "copy_config" /\ exit_code' = 0
    /\ UNCHANGED <<envVars, checkVars>>

(* Variant: the abort does not look whether a file is there. *)
abort_after_copy_any(copied, exists) == ~copied

(* Line 332: abort when the copy failed and left no file. *)
abort_after_copy(copied, exists) == ~copied /\ ~exists

(* Lines 330-334 *)
setup_copy_config ==
    /\ pc = "copy_config"
    /\ \E io \in IOOutcomes :
          LET r == _copy_config(files, overwrite, template, io) IN
          /\ files' = r.files
          /\ config_copied' = r.ok
          /\ copy_path' = r.path
          /\ manifest_at_copy' = files[PACKAGE_JSON].exists
          /\ IF abort_after_copy(r.ok, r.files[TARGET_CONFIG_FILE].exists)
             THEN pc' = "done" /\ exit_code' = 1
             ELSE pc' = "install_python_tools" /\ exit_code' = 0
    /\ UNCHANGED <<gitDir, hooks, commands, template, overwrite,
                   config_at_start, python_tools_ok, manager_found,
                   install_log, hooks_installed, instructions, checkVars>>

(* Lines 106-120 and 337: pip may fail, and what it installs may or may not
   end up on PATH. The return value is dropped by setup. *)
setup_install_python_tools ==
    /\ pc = "install_python_tools"
    /\ IF command_exists("cz")
       THEN python_tools_ok' = TRUE /\ commands' = commands
       ELSE \E ok \in BOOLEAN, onPath \in BOOLEAN :
               /\ python_tools_ok' = ok
               /\ commands' = IF ok /\ onPath THEN commands \cup {"cz"}
                              ELSE commands
    /\ pc' = "install_hooks"
    /\ UNCHANGED <<files, gitDir, hooks, template, overwrite, config_at_start,
                   manifest_at_copy, config_copied, copy_path, manager_found,
                   install_log, hooks_installed, instructions, exit_code,
                   checkVars>>

(* Lines 123-135 *)
setup_install_hooks_begin ==
    /\ pc = "install_hooks"
    /\ manager_found' = IF command_exists("pre-commit") THEN "found"
                        ELSE "missing"
    /\ IF ~command_exists("pre-commit")
       THEN hooks_installed' = FALSE /\ pc' = "hooks_returned"
       ELSE hooks_installed' = TRUE /\ pc' = "install_hook"
    /\ UNCHANGED <<envVars, overwrite, config_at_start, manifest_at_copy,
                   config_copied, copy_path, python_tools_ok, install_log,
                   instructions, exit_code, checkVars>>

(* Lines 142-143: the loop's success flag after one more invocation. *)
hook_success(success, ok) == success /\ ok

(* Variant: the loop stops at the first failure. *)
after_hook_break(i, ok) ==
    IF ok /\ i < Len(HOOK_TYPES) THEN "install_hook" ELSE "hooks_returned"

(* Lines 138-146: what the loop does after an invocation. *)
after_hook(i, ok) ==
    IF i < Len(HOOK_TYPES) THEN "install_hook" ELSE "hooks_returned"

(* Lines 138-146: one iteration. A successful install leaves the script. *)
setup_install_hook ==
    /\ pc = "install_hook"
    /\ LET i == Len(install_log) + 1 IN
       \E ok \in BOOLEAN :
          /\ install_log' = Append(install_log, <<HOOK_TYPES[i], ok>>)
          /\ hooks_installed' = hook_success(hooks_installed, ok)
          /\ hooks' = IF ok THEN [hooks EXCEPT ![HOOK_TYPES[i]] = "managed"]
                      ELSE hooks
          /\ pc' = after_hook(i, ok)
    /\ UNCHANGED <<files, gitDir, commands, template, overwrite,
                   config_at_start, manifest_at_copy, config_copied, copy_path,
                   python_tools_ok, manager_found, instructions, exit_code,
                   checkVars>>

(* Lines 340-343 *)
setup_hooks_returned ==
    /\ pc = "hooks_returned"
    /\ IF ~hooks_installed
       THEN pc' = "done" /\ exit_code' = 1
       ELSE pc' = "print_instructions" /\ exit_code' = 0
    /\ UNCHANGED <<envVars, setupVars, checkVars>>

(* Lines 345-354 *)
setup_print_instructions ==
    /\ pc = "print_instructions"
    /\ instructions' = _print_dependency_instructions
    /\ pc' = "done"
    /\ exit_code' = 0
    /\ UNCHANGED <<envVars, overwrite, config_at_start, manifest_at_copy,
                   config_copied, copy_path, python_tools_ok, manager_found,
                   install_log, hooks_installed, checkVars>>

(* The process has ended; the next command starts from a fresh process. *)
setup_exit ==
    /\ pc = "done"
    /\ pc' = "idle"
    /\ overwrite' = FALSE
    /\ config_at_start' = Absent
    /\ SetupReset
    /\ UNCHANGED <<envVars, exit_code, checkVars>>

(* Between two runs the user adds or removes package.json. *)
toggle_manifest ==
    /\ pc = "idle"
    /\ files' = [files EXCEPT ![PACKAGE_JSON] =
                    IF files[PACKAGE_JSON].exists THEN Absent
                    ELSE File(UserContent)]
    /\ UNCHANGED <<gitDir, hooks, commands, template, pc, exit_code,
                   setupVars, checkVars>>

(* Between two runs the hook manager is installed or removed. *)
toggle_hook_manager ==
    /\ pc = "idle"
    /\ commands' = IF "pre-commit" \in commands
                   THEN commands \ {"pre-commit"}
                   ELSE commands \cup {"pre-commit"}
    /\ UNCHANGED <<files, gitDir, hooks, template, pc, exit_code, setupVars,
                   checkVars>>

----------------------------------------------------------------------------
(* The environments setup is run in *)

T_FULL     == <<"repos", JS_MARKER, "js-hooks", BRANCH_MARKER, "branch-hook">>
T_NO_JS    == <<"repos", BRANCH_MARKER, "branch-hook">>
T_NO_BRANCH == <<"repos", JS_MARKER, "js-hooks">>
T_NONE     == <<"repos">>
T_TWICE    == <<"repos", JS_MARKER, "js-hooks", BRANCH_MARKER, "branch-hook",
                BRANCH_MARKER, "more">>
Templates  == {T_FULL, T_NO_JS, T_NO_BRANCH, T_NONE, T_TWICE}

OtherTools == {"black", "prettier"}

NoHooks == [h \in Range(HOOK_TYPES) |-> "absent"]

CheckIdle ==
    /\ probes_run = <<>>
    /\ all_success = <<>>
    /\ all_warnings = <<>>
    /\ all_errors = <<>>
    /\ has_issues = FALSE
    /\ status = "none"

SetupIdle ==
    /\ overwrite = FALSE
    /\ config_at_start = Absent
    /\ manifest_at_copy = FALSE
    /\ config_copied = FALSE
    /\ copy_path = "none"
    /\ python_tools_ok = TRUE
    /\ manager_found = "unchecked"
    /\ install_log = <<>>
    /\ hooks_installed = FALSE
    /\ instructions = NotPrinted

InitSetup ==
    /\ gitDir \in BOOLEAN
    /\ template \in Templates
    /\ files \in {f \in [FileNames -> {Absent, File(UserContent)}] : f[GUIDE_FILE].exists}
    /\ commands \in {OtherTools \cup s : s \in SUBSET {"pre-commit", "cz"}}
    /\ hooks = NoHooks
    /\ pc = "idle"
    /\ exit_code = 0
    /\ SetupIdle
    /\ CheckIdle

NextSetup ==
    \/ setup_start
    \/ setup_copy_config
    \/ setup_install_python_tools
    \/ setup_install_hooks_begin
    \/ setup_install_hook
    \/ setup_hooks_returned
    \/ setup_print_instructions
    \/ setup_exit
    \/ toggle_manifest
    \/ toggle_hook_manager

SpecSetup == InitSetup /\ [][NextSetup]_vars

----------------------------------------------------------------------------
(* utils.py: check_hook_installed *)

(* What a hook script can be: missing, not readable as UTF-8 text, or a text
   holding some of the three markers. *)
HOOK_MARKERS == {"pre-commit", "File generated by pre-commit:",
                 "INSTALL_PYTHON"}

HookMarkersIn(state) ==
    CASE state = "managed" -> HOOK_MARKERS
      [] state = "foreign" -> {"pre-commit"}
      [] OTHER             -> {}

HookStates == {"absent", "binary", "foreign", "managed"}

(* Variant: no try/except around read_text. *)
check_hook_installed_unguarded(hook_type) ==
    IF hooks[hook_type] = "absent"
    THEN [raised |-> FALSE, value |-> FALSE]
    ELSE IF hooks[hook_type] = "binary"
    THEN [raised |-> TRUE, value |-> FALSE]
    ELSE [raised |-> FALSE,
          value  |-> HOOK_MARKERS \subseteq HookMarkersIn(hooks[hook_type])]

(* Lines 106-116: read_text raises on a binary file; the except clause
   turns that into False. *)
check_hook_installed(hook_type) ==
    IF hooks[hook_type] = "absent"
    THEN [raised |-> FALSE, value |-> FALSE]
    ELSE IF hooks[hook_type] = "binary"
    THEN [raised |-> FALSE, value |-> FALSE]
    ELSE [raised |-> FALSE,
          value  |-> HOOK_MARKERS \subseteq HookMarkersIn(hooks[hook_type])]

----------------------------------------------------------------------------
(* cli.py: the probes of check. Each returns its three message lists, its
   issues flag, and whether it raised. *)

Msgs(kind, subjects) == [i \in 1..Len(subjects) |-> <<kind, subjects[i]>>]

Probe(s, w, e, i) ==
    [success |-> s, warnings |-> w, errors |-> e, issues |-> i,
     raised |-> FALSE]

Raised ==
    [success |-> <<>>, warnings |-> <<>>, errors |-> <<>>, issues |-> FALSE,
     raised |-> TRUE]

(* Lines 215-228 *)
_check_git_repo ==
    IF ~is_git_repo
    THEN Probe(<<>>, <<>>, <<<<"not a git repository", ".git">>>>, TRUE)
    ELSE Probe(<<<<"git repository detected", ".git">>>>, <<>>, <<>>, FALSE)

(* Lines 231-250 *)
_check_pre_commit ==
    LET cmd == command_exists("pre-commit")
        cfg == files[TARGET_CONFIG_FILE].exists
    IN  Probe((IF cmd THEN <<<<"command found", "pre-commit">>>> ELSE <<>>)
              \o (IF cfg THEN <<<<"file found", "config">>>> ELSE <<>>),
              <<>>,
              (IF cmd THEN <<>> ELSE <<<<"command not found", "pre-commit">>>>)
              \o (IF cfg THEN <<>> ELSE <<<<"file not found", "config">>>>),
              ~cmd \/ ~cfg)

(* Lines 253-275: a missing hook script is a warning message, and line 270
   sets the probe's issues flag for it. *)
_check_hooks ==
    LET Installed(h) == check_hook_installed(h).value
        Missing(h)   == ~check_hook_installed(h).value
        found        == SelectSeq(HOOK_TYPES, Installed)
        missing      == SelectSeq(HOOK_TYPES, Missing)
    IN  IF \E h \in Range(HOOK_TYPES) : check_hook_installed(h).raised
        THEN Raised
        ELSE Probe(Msgs("hook found", found)
                   \o (IF missing = <<>>
                       THEN <<<<"all hooks installed", "hooks">>>> ELSE <<>>),
                   Msgs("hook not found", missing),
                   <<>>,
                   missing # <<>>)

(* Lines 278-302 *)
_check_tools ==
    LET Found(t)   == command_exists(check_cmd(t))
        NotFound(t) == ~command_exists(check_cmd(t))
    IN  Probe(Msgs("command found", SelectSeq(PYTHON_TOOLS, Found)),
              Msgs("command not found", SelectSeq(PYTHON_TOOLS, NotFound))
              \o (IF files[PACKAGE_JSON].exists THEN _check_js_tools
                  ELSE <<>>),
              <<>>,
              FALSE)

(* Line 373: the list the loop of check goes through. *)
CHECK_FUNCS == <<"_check_git_repo", "_check_pre_commit", "_check_hooks",
                 "_check_tools">>

CallProbe(name) ==
    CASE name = "_check_git_repo"   -> _check_git_repo
      [] name = "_check_pre_commit" -> _check_pre_commit
      [] name = "_check_hooks"      -> _check_hooks
      [] name = "_check_tools"      -> _check_tools

----------------------------------------------------------------------------
(* cli.py: check *)

(* Lines 361-370 *)
check_start ==
    /\ pc = "idle"
    /\ probes_run' = <<>>
    /\ all_success' = <<>>
    /\ all_warnings' = <<>>
    /\ all_errors' = <<>>
    /\ has_issues' = FALSE
    /\ status' = "none"
    /\ pc' = "check_loop"
    /\ exit_code' = 0
    /\ UNCHANGED <<envVars, setupVars>>

(* Lines 373-378: one iteration; an exception leaving a probe ends the
   command with a traceback and exit code 1. *)
check_run_probe ==
    /\ pc = "check_loop"
    /\ LET name == CHECK_FUNCS[Len(probes_run) + 1]
           r    == CallProbe(name)
       IN  /\ probes_run' = Append(probes_run, name)
           /\ IF r.raised
              THEN /\ pc' = "done"
                   /\ exit_code' = 1
                   /\ status' = "raised"
                   /\ UNCHANGED <<all_success, all_warnings, all_errors,
                                  has_issues>>
              ELSE /\ all_success' = all_success \o r.success
                   /\ all_warnings' = all_warnings \o r.warnings
                   /\ all_errors' = all_errors \o r.errors
                   /\ has_issues' = (has_issues \/ r.issues)
                   /\ pc' = IF Len(probes_run) + 1 < Len(CHECK_FUNCS)
                            THEN "check_loop" ELSE "check_summary"
                   /\ UNCHANGED <<exit_code, status>>
    /\ UNCHANGED <<envVars, setupVars>>

(* Lines 389-395: the status line. *)
final_status(issues, warnings) ==
    IF ~issues /\ warnings = <<>> THEN "success"
    ELSE IF ~issues /\ warnings # <<>> THEN "warning"
    ELSE "error"

(* Lines 380-395 *)
check_summary ==
    /\ pc = "check_summary"
    /\ status' = final_status(has_issues, all_warnings)
    /\ pc' = "done"
    /\ exit_code' = 0
    /\ UNCHANGED <<envVars, setupVars, probes_run, all_success, all_warnings,
                   all_errors, has_issues>>

(* The process has ended; check can be run again. *)
check_exit ==
    /\ pc = "done"
    /\ pc' = "idle"
    /\ probes_run' = <<>>
    /\ all_success' = <<>>
    /\ all_warnings' = <<>>
    /\ all_errors' = <<>>
    /\ has_issues' = FALSE
    /\ status' = "none"
    /\ UNCHANGED <<envVars, setupVars, exit_code>>

----------------------------------------------------------------------------
(* The environments check is run in *)

AllCommands == {"pre-commit"} \cup {check_cmd(t) : t \in Range(PYTHON_TOOLS)}
               \cup Range(JS_TOOLS)

CheckFiles == {TARGET_CONFIG_FILE, PACKAGE_JSON, ESLINTRC_JSON,
               PRETTIERRC_JSON}

InitCheck ==
    /\ gitDir \in BOOLEAN
    /\ template = T_FULL
    /\ files \in {f \in [FileNames -> {Absent, File(UserContent)}] :
                     \A n \in FileNames \ CheckFiles : ~f[n].exists}
    /\ commands \in SUBSET AllCommands
    /\ hooks \in IF gitDir THEN [Range(HOOK_TYPES) -> HookStates]
                 ELSE {NoHooks}
    /\ pc = "idle"
    /\ exit_code = 0
    /\ SetupIdle
    /\ CheckIdle

NextCheck ==
    \/ check_start
    \/ check_run_probe
    \/ check_summary
    \/ check_exit

SpecCheck == InitCheck /\ [][NextCheck]_vars

----------------------------------------------------------------------------
(* Properties *)

SetupDone == pc = "done" /\ probes_run = <<>>

CopyFailed == copy_path \in {"io_error", "index_error"}

SomeInstallFailed == \E i \in 1..Len(install_log) : ~install_log[i][2]

Count(s, x) == Cardinality({i \in 1..Len(s) : s[i] = x})

(* The content from the first occurrence of x onward; empty without one. *)
From(s, x) ==
    IF \A i \in 1..Len(s) : s[i] # x THEN <<>>
    ELSE LET i == CHOOSE k \in 1..Len(s) :
                     s[k] = x /\ \A j \in 1..(k - 1) : s[j] # x
         IN  SubSeq(s, i, Len(s))

(* What the overwrite law expects in the configuration file. *)
Derived ==
    IF manifest_at_copy THEN template ELSE remove_js_section(template).content

(* C1: a finished setup has exit code 1 exactly when the directory is no
   repository, or the copy failed and no configuration file exists afterward,
   or the hook manager was not found or some hook-type install failed; in
   every other case the exit code is 0. *)
C1_SetupExitCode ==
    SetupDone =>
        /\ exit_code \in {0, 1}
        /\ exit_code = 1 <=>
              \/ ~gitDir
              \/ (CopyFailed /\ ~config_copied
                  /\ ~files[TARGET_CONFIG_FILE].exists)
              \/ manager_found = "missing"
              \/ SomeInstallFailed

(* C1 witness: the copy failed, a file is there all the same, every hook
   type installed, and setup ended with exit code 0. *)
C1_Witness ==
    /\ SetupDone
    /\ gitDir
    /\ CopyFailed
    /\ files[TARGET_CONFIG_FILE].exists
    /\ Len(install_log) = Len(HOOK_TYPES)
    /\ exit_code = 0

(* C2: from the start of a setup run without --overwrite on a directory
   where the configuration file exists, through to its end, the file is what
   it was when the run began -- whichever run wrote it, and whatever became
   of package.json and of the hook manager since. *)
C2_NoOverwriteKeepsConfig ==
    (pc # "idle" /\ ~overwrite /\ config_at_start.exists) =>
        files[TARGET_CONFIG_FILE] = config_at_start

(* C2 witness: a second run without --overwrite has ended on a file an
   earlier run wrote without package.json, and package.json is there now. *)
C2_Witness ==
    /\ SetupDone
    /\ exit_code = 0
    /\ ~overwrite
    /\ template = T_FULL
    /\ config_at_start = File(remove_js_section(T_FULL).content)
    /\ copy_path = "skipped"
    /\ files[PACKAGE_JSON].exists

(* C3, as claimed, for the runs whose copy step reported success and that
   ended with exit code 0: after setup --overwrite in a repository the
   configuration file holds the template-derived content and the guide
   document holds the bundled guide. *)
C3_OverwriteLaw ==
    (SetupDone /\ gitDir /\ overwrite /\ config_copied /\ exit_code = 0) =>
        /\ files[TARGET_CONFIG_FILE] = File(Derived)
        /\ files[GUIDE_FILE] = File(GUIDE_TEMPLATE)

(* C4: when setup has written the configuration file, the file does not
   hold the JS/TS marker if package.json was absent; it holds the marker
   (the template's) if package.json was present; and, each marker occurring
   at most once in the template, what follows from the branch marker onward
   is the template's. *)
C4_ManifestGating ==
    copy_path = "written" =>
        LET written == files[TARGET_CONFIG_FILE].content IN
        /\ files[TARGET_CONFIG_FILE].exists
        /\ ~manifest_at_copy => JS_MARKER \notin Range(written)
        /\ (manifest_at_copy /\ JS_MARKER \in Range(template)) =>
               JS_MARKER \in Range(written)
        /\ (Count(template, JS_MARKER) <= 1
            /\ Count(template, BRANCH_MARKER) <= 1) =>
               From(written, BRANCH_MARKER) = From(template, BRANCH_MARKER)

(* C4 witness: without package.json the section was cut out of a template
   holding both markers, and the rest was written. *)
C4_Witness ==
    /\ copy_path = "written"
    /\ ~manifest_at_copy
    /\ template = T_FULL
    /\ files[TARGET_CONFIG_FILE].content =
           <<"repos", BRANCH_MARKER, "branch-hook">>

(* C5, as claimed: the status of a finished check is "error" exactly when
   an error message was collected, else "warning" when a warning was, else
   "success". *)
C5_Aggregation ==
    (pc = "done" /\ status # "raised" /\ probes_run # <<>>) =>
        status = IF all_errors # <<>> THEN "error"
                 ELSE IF all_warnings # <<>> THEN "warning"
                 ELSE "success"

(* C6: check calls its probes in the order of the list, each once, none
   skipped; no probe raises; and check ends with exit code 0 after all
   four. *)
C6_CheckRunsAllProbes ==
    /\ Len(probes_run) <= Len(CHECK_FUNCS)
    /\ probes_run = SubSeq(CHECK_FUNCS, 1, Len(probes_run))
    /\ status # "raised"
    /\ pc = "check_summary" => probes_run = CHECK_FUNCS
    /\ (pc = "done" /\ probes_run # <<>>) =>
           /\ probes_run = CHECK_FUNCS
           /\ exit_code = 0
           /\ status \in {"success", "warning", "error"}

(* C6 witness: a check has ended in a repository without hook manager and
   without configuration file, where a hook script is a binary file. *)
C6_Witness ==
    /\ pc = "done"
    /\ probes_run = CHECK_FUNCS
    /\ exit_code = 0
    /\ gitDir
    /\ ~command_exists("pre-commit")
    /\ ~files[TARGET_CONFIG_FILE].exists
    /\ hooks["commit-msg"] = "binary"

LinterFiles == {ESLINTRC_JSON, PRETTIERRC, PRETTIERRC_JSON}

(* C7, as claimed: no step changes a linter or formatter configuration file
   that exists, and a step that creates one finds package.json present. *)
C7_LinterConfigsKept ==
    [][\A n \in LinterFiles :
          /\ files[n].exists => files'[n] = files[n]
          /\ files'[n] # files[n] => files[PACKAGE_JSON].exists]_vars

LogTypes == [i \in 1..Len(install_log) |-> install_log[i][1]]

HooksReturned == pc \in {"hooks_returned", "print_instructions"}
                 \/ (SetupDone /\ manager_found # "unchecked")

(* C8: the install invocations are those of the hook types in their fixed
   order, each once; when _install_hooks has returned with the hook manager
   found, all three were invoked and the result is failure exactly when one
   of them failed; with the hook manager not found none was invoked and the
   result is failure. *)
C8_InstallEveryHookType ==
    /\ Len(install_log) <= Len(HOOK_TYPES)
    /\ LogTypes = SubSeq(HOOK_TYPES, 1, Len(install_log))
    /\ manager_found # "found" => install_log = <<>>
    /\ HooksReturned =>
          /\ manager_found = "found" =>
                /\ LogTypes = HOOK_TYPES
                /\ hooks_installed <=> ~SomeInstallFailed
          /\ manager_found = "missing" =>
                /\ install_log = <<>>
                /\ ~hooks_installed

(* C8 witness: the first install failed, the other two were invoked and
   succeeded, and the result is failure. *)
C8_Witness ==
    /\ pc = "hooks_returned"
    /\ manager_found = "found"
    /\ install_log = <<<<"pre-commit", FALSE>>, <<"commit-msg", TRUE>>,
                       <<"pre-push", TRUE>>>>
    /\ ~hooks_installed

(* C9, as claimed: a setup run that reached the hook installation with the
   hook manager found has printed the instructions when it ends, the JS/TS
   side exactly with package.json present. *)
C9_InstructionsPrinted ==
    (SetupDone /\ manager_found = "found") =>
        /\ instructions.printed
        /\ instructions.js_checked = files[PACKAGE_JSON].exists

(* C10, as claimed: without package.json, with a template that lacks one of
   the two markers, and with no failing read or write, the copy step succeeds
   and the configuration file is the template. *)
C10_MissingMarkerCopies ==
    (/\ copy_path \in {"written", "index_error"}
     /\ ~manifest_at_copy
     /\ (JS_MARKER \notin Range(template)
         \/ BRANCH_MARKER \notin Range(template))) =>
        /\ config_copied
        /\ files[TARGET_CONFIG_FILE] = File(template)

====
